---- MODULE Spec2Model ----
(***************************************************************************)
(* download_scannetpp.py: the dataset downloader.  The model follows       *)
(* main() from the creation of the data root (line 212) to the final       *)
(* report (lines 325-328), with check_download_file, download_file and     *)
(* urlretrieve_multi_trials as the sub-steps they are in the code.         *)
(*                                                                         *)
(* The local filesystem is a function from paths to what is found there.   *)
(* A path the program has neither examined nor written is "unseen": what   *)
(* lies on disk there (left by earlier runs or by the user) is fixed by    *)
(* the environment the first time the program looks.  The remote server    *)
(* answers every request with one of the outcomes urllib can produce.      *)
(***************************************************************************)
EXTENDS Integers, Sequences, FiniteSets, TLC

\* ------------------------------------------------------------------ bounds
NumScenes == 2
MaxTrialsArg == 5
MaxOptions == 2
MaxOptionAssets == 2

\* ------------------------------------------------------- program constants
\* max_trials=5, the default argument of urlretrieve_multi_trials
DefaultMaxTrials == 5

\* ------------------------------------------------------------ configuration
Scenes == 1..NumScenes
Assets == {"a1", "a2"}
SplitNames == {"train", "test"}
NoSplit == "None"

\* cfg.splits: the configured splits, in order
CfgSplits == <<"train", "test">>

\* cfg.meta_files: the split lists splits/<split>.txt, in the order of cfg.splits
MetaIds == 1..Len(CfgSplits)

Root == <<"root", 0, "-">>
MetaPath(k) == <<"meta", k, "-">>
\* getattr(tgt_scene, asset)
TgtPath(s, a) == <<"tgt", s, a>>
\* tgt_path.with_suffix(".zip")
ZipPath(s, a) == <<"zip", s, a>>
\* data_root / "splits" / f"{split}.txt"
SplitPath(k) == MetaPath(k)

\* the directory a file lies in: Path(filename).parent
MetaDir == <<"dir", 0, "-">>
SceneDir(s) == <<"dir", s, "-">>
Parent(p) == IF p[1] = "meta" THEN MetaDir ELSE SceneDir(p[2])

Paths ==
    {Root, MetaDir} \cup {MetaPath(k) : k \in MetaIds}
           \cup {SceneDir(s) : s \in Scenes}
           \cup {TgtPath(s, a) : s \in Scenes, a \in Assets}
           \cup {ZipPath(s, a) : s \in Scenes, a \in Assets}

\* what can be found at a path
FsKinds == {"unseen", "absent", "file", "partial", "dir"}

\* Path.exists(): a directory exists as well
exists(st) == st \in {"file", "partial", "dir"}

\* Path.is_file(): a truncated file is a file as well
is_file(st) == st \in {"file", "partial"}
\* Path.is_dir()
is_dir(st) == st = "dir"

VARIABLES
    cfg,                \* the configuration (Munch) read at line 163
    split_txt,          \* the content of the split list files
    fs,                 \* the local filesystem
    fsChanged,          \* this run created, wrote or deleted something
    netUsed,            \* this run issued a request to the server
    unzipped,           \* this run extracted an archive
    pc,                 \* where the program is
    exc,                \* the exception that ended the run, or "none"
    caller,             \* who called check_download_file
    filename,           \* local_path of the current check_download_file
    max_trials,         \* argument of urlretrieve_multi_trials
    trial,              \* loop variable i of urlretrieve_multi_trials
    attempts,           \* outcomes of the urlretrieve calls of this fetch
    result,             \* value returned by the last call
    missing,            \* main's missing list
    download_has_error, \* main's flag
    mi, si, ai,         \* positions in cfg.meta_files, scene_ids, download_assets
    split,              \* main's split variable
    split_lists,        \* main's split_lists
    download_assets,    \* main's download_assets
    out,                \* the error and closing messages printed
    run,                \* number of the invocation
    prev                \* how the invocation before ended: "clean" when it
                        \* ran to its end with nothing missing

vars == <<cfg, split_txt, fs, fsChanged, netUsed, unzipped, pc, exc, caller,
          filename, max_trials, trial, attempts, result, missing,
          download_has_error, mi, si, ai, split, split_lists,
          download_assets, out, run, prev>>

\* ------------------------------------------------------------- environment
\* What an unseen path may hold on disk.  A plain asset and a meta file are
\* files, an extracted archive is a directory (or a file), an archive may be
\* whole or cut short by an interrupted earlier run.
Initially(p) ==
    IF p[1] = "meta" THEN {"absent", "file"}
    ELSE IF p[1] = "dir" THEN {"absent", "dir"}
    ELSE IF p[1] = "zip" THEN {"absent", "file", "partial"}
    ELSE IF p[3] \in cfg.zipped_assets THEN {"absent", "dir", "file"}
    ELSE {"absent", "file"}

Present(st) == st \in {"file", "partial", "dir"}

\* what the program finds at p when it looks
Seen(p) ==
    IF fs[p] # "unseen" THEN {fs[p]}
    ELSE IF p[1] = "dir"
         THEN IF \E q \in Paths : q[1] # "dir" /\ q # Root /\ Parent(q) = p /\ Present(fs[q])
              THEN {"dir"} ELSE Initially(p)
         ELSE Initially(p)

\* the filesystem f once p was found to hold st: a present file has its directory
Found(f, p, st) ==
    [q \in Paths |->
        IF q = p THEN st
        ELSE IF p[1] # "dir" /\ q = Parent(p) /\ Present(st) THEN "dir"
        ELSE f[q]]

\* Path(filename).parent.mkdir(parents=True, exist_ok=True) given the directory
\* was found in state d: a directory that had to be created holds nothing yet
Mkdir(f, dir, d) ==
    [q \in Paths |->
        IF q = dir THEN "dir"
        ELSE IF d = "absent" /\ q[1] # "dir" /\ q # Root /\ Parent(q) = dir /\ f[q] = "unseen"
             THEN "absent"
        ELSE f[q]]

\* the answers of the server to one urlretrieve: the whole file, a transfer
\* cut short (ContentTooShortError), or an HTTP error status
HttpErrors == {"401", "404", "406", "500"}
Outcomes == {"ok", "short"} \cup HttpErrors

\* ------------------------------------------------------------------- state
Finished == pc \in {"done", "crashed"}

\* The configurations of a run of main: two assets are asked for, the first
\* delivered as an archive and the second as a plain file; the test split may
\* exclude any of them and the train split excludes none; cfg.splits names
\* both splits or, a configuration error, none.  The asset list is given
\* explicitly (SelectConfigs below covers the other ways to select it).
Configs ==
    [dry_run : BOOLEAN,
     metadata_only : BOOLEAN,
     splits : {CfgSplits, <<>>},
     zipped_assets : {{"a1"}},
     exclude_assets : {e \in [SplitNames -> SUBSET Assets] : e["train"] = {}},
     download_assets : {<<"a1", "a2">>},
     download_options : {<<>>},
     option_assets : {[o \in {"o1", "o2"} |-> <<>>]},
     default_assets : {<<>>}]

\* the split lists on disk and on the server: every scene in at most one split
SplitTexts ==
    {t \in [SplitNames -> SUBSET Scenes] : t["train"] \cap t["test"] = {}}

\* main's local variables before line 204
Fresh ==
    /\ fsChanged = FALSE
    /\ netUsed = FALSE
    /\ unzipped = FALSE
    /\ exc = "none"
    /\ caller = "none"
    /\ filename = Root
    /\ max_trials = DefaultMaxTrials
    /\ trial = 0
    /\ attempts = <<>>
    /\ result = "none"
    /\ missing = <<>>
    /\ download_has_error = FALSE
    /\ mi = 1
    /\ si = 1
    /\ ai = 1
    /\ split = NoSplit
    /\ split_lists = [s \in SplitNames |-> {}]
    /\ download_assets = <<>>
    /\ out = {}
    /\ prev = "none"

Init ==
    /\ cfg \in Configs
    /\ split_txt \in SplitTexts
    /\ \E r \in {"absent", "dir"} :
          fs = [p \in Paths |-> IF p = Root THEN r
                                ELSE IF r = "absent" THEN "absent" ELSE "unseen"]
    /\ pc = "mkroot"
    /\ run = 1
    /\ Fresh

\* ----------------------------------------------------------------- helpers
\* lines 273-276: the loop leaves split at the first split whose list holds the
\* scene; a loop that never breaks leaves it at the last split, and a loop over
\* no split leaves it None
RECURSIVE FirstSplit(_, _, _)
FirstSplit(scene, lists, k) ==
    IF k > Len(cfg.splits) THEN
        (IF Len(cfg.splits) = 0 THEN NoSplit ELSE cfg.splits[Len(cfg.splits)])
    ELSE IF scene \in lists[cfg.splits[k]] THEN cfg.splits[k]
    ELSE FirstSplit(scene, lists, k + 1)

FindSplit(scene, lists) == FirstSplit(scene, lists, 1)

\* the test of line 281 left out
ExcludedNever(asset, sp) == FALSE

\* line 281: asset in cfg.exclude_assets.get(split, [])
Excluded(asset, sp) == sp \in SplitNames /\ asset \in cfg.exclude_assets[sp]

\* line 288 with the is_dir() test left out
TargetIsFile(st) == is_file(st)

\* line 288 with the is_file() test left out
TargetIsDir(st) == is_dir(st)

\* line 288: tgt_path.is_file() or tgt_path.is_dir()
TargetExists(st) == is_file(st) \/ is_dir(st)

\* lines 255-257 without the test of line 256
AppendAll(acc, option_assets) == acc \o option_assets

\* lines 252-257: the assets of the options, each kept where it first occurs
RECURSIVE AppendNew(_, _)
AppendNew(acc, option_assets) ==
    IF option_assets = <<>> THEN acc
    ELSE LET asset == Head(option_assets)
         IN  AppendNew(IF \E i \in 1..Len(acc) : acc[i] = asset
                       THEN acc ELSE Append(acc, asset),
                       Tail(option_assets))

RECURSIVE OptionAssets(_, _, _)
OptionAssets(acc, options, table) ==
    IF options = <<>> THEN acc
    ELSE OptionAssets(AppendNew(acc, table[Head(options)]), Tail(options), table)

\* lines 249-259: an empty list is false in Python
SelectAssets(c) ==
    IF c.download_assets # <<>> THEN c.download_assets
    ELSE IF c.download_options # <<>>
         THEN OptionAssets(<<>>, c.download_options, c.option_assets)
    ELSE c.default_assets

\* scene_ids (cfg.download_scenes): the scenes in order
SceneIds == [i \in 1..NumScenes |-> i]

\* --------------------------------------------------------------- main, 1
\* line 212: data_root.mkdir(parents=True, exist_ok=True)
MakeDataRoot ==
    /\ pc = "mkroot"
    /\ fs' = [fs EXCEPT ![Root] = "dir"]
    /\ fsChanged' = (fsChanged \/ fs[Root] = "absent")
    /\ pc' = "meta"
    /\ UNCHANGED <<cfg, split_txt, netUsed, unzipped, exc, caller, filename,
                   max_trials, trial, attempts, result, missing,
                   download_has_error, mi, si, ai, split, split_lists,
                   download_assets, out, run, prev>>

\* lines 215-216 and 219-221: the loop over cfg.meta_files, then the
\* metadata_only return
MetaLoop ==
    /\ pc = "meta"
    /\ IF mi <= Len(CfgSplits)
       THEN /\ caller' = "meta"
            /\ filename' = MetaPath(mi)
            /\ pc' = "cdf"
            /\ out' = out
       ELSE /\ UNCHANGED <<caller, filename>>
            /\ IF cfg.metadata_only
               THEN pc' = "done" /\ out' = out \cup {"Downloaded metadata, done."}
               ELSE pc' = "splits" /\ out' = out
    /\ UNCHANGED <<cfg, split_txt, fs, fsChanged, netUsed, unzipped, exc,
                   max_trials, trial, attempts, result, missing,
                   download_has_error, mi, si, ai, split, split_lists,
                   download_assets, run, prev>>

\* the test of line 302 left out: a dry run installs the archive as well
InstallsAlways(c, dry_run) == c = "zip"

\* lines 285 and 302: the archive of an archived asset is extracted and
\* deleted unless the run is a dry run
Installs(c, dry_run) == c = "zip" /\ ~dry_run

\* What the caller does with the value check_download_file returns:
\* lines 216-217 (meta files), 296-302 (archives), 316-319 (plain assets).
\* A direct call of the fetcher keeps the value.
Return(status) ==
    /\ exc' = exc
    /\ IF caller = "direct"
       THEN /\ result' = (IF status THEN "True" ELSE "False")
            /\ pc' = "returned"
            /\ UNCHANGED <<missing, download_has_error, mi, ai>>
       ELSE
       /\ result' = result
       /\ IF caller = "meta"
          THEN /\ missing' = (IF status THEN missing ELSE Append(missing, filename))
               /\ mi' = mi + 1
               /\ pc' = "meta"
               /\ UNCHANGED <<download_has_error, ai>>
          ELSE /\ mi' = mi
               /\ IF ~status
                  THEN /\ missing' = Append(missing, filename)
                       /\ download_has_error' = TRUE
                       /\ pc' = "scene_end"
                       /\ ai' = ai
                  ELSE /\ UNCHANGED <<missing, download_has_error>>
                       /\ IF Installs(caller, cfg.dry_run)
                          THEN pc' = "unzip" /\ ai' = ai
                          ELSE pc' = "asset" /\ ai' = ai + 1

\* the error caught on the way up and turned into a returned False
ReturnsFalse(e) == Return(FALSE)

\* raise e, which nothing catches: the run ends with a traceback
Raise(e) ==
    /\ exc' = e
    /\ pc' = "crashed"
    /\ UNCHANGED <<result, missing, download_has_error, mi, ai>>

\* ------------------------------------------------------ check_download_file
\* lines 146-152: under dry_run the answer of the HEAD request is the result
\* (check_remote_file_exists, lines 47-60)
CheckRemote ==
    /\ pc = "cdf"
    /\ cfg.dry_run
    /\ \E status \in BOOLEAN :
          Return(status)
    /\ netUsed' = TRUE
    /\ UNCHANGED <<cfg, split_txt, fs, fsChanged, unzipped, caller, filename,
                   max_trials, trial, attempts, si, split, split_lists,
                   download_assets, out, run, prev>>

\* line 154 asking local_path.exists()
LocalPathExists(st) == exists(st)

\* line 154: local_path.is_file()
LocalPathIsFile(st) == is_file(st)

\* lines 154-157: the file is there, nothing is fetched
SkipExisting ==
    /\ pc = "cdf"
    /\ ~cfg.dry_run
    /\ \E st \in Seen(filename) :
          /\ LocalPathIsFile(st)
          /\ fs' = Found(fs, filename, st)
    /\ Return(TRUE)
    /\ UNCHANGED <<cfg, split_txt, fsChanged, netUsed, unzipped, caller,
                   filename, max_trials, trial, attempts, si, split,
                   split_lists, download_assets, out, run, prev>>

\* lines 158-159 and download_file (lines 122-132): the parent directory is
\* made and urlretrieve_multi_trials is entered with its default max_trials
download_file ==
    /\ pc = "cdf"
    /\ ~cfg.dry_run
    /\ \E st \in Seen(filename) :
          /\ ~LocalPathIsFile(st)
          /\ \E d \in {x \in Seen(Parent(filename)) : Present(st) => x = "dir"} :
                /\ fs' = Mkdir(Found(fs, filename, st), Parent(filename), d)
                /\ fsChanged' = (fsChanged \/ d = "absent")
    /\ pc' = "try"
    /\ trial' = 0
    /\ attempts' = <<>>
    /\ max_trials' = DefaultMaxTrials
    /\ UNCHANGED <<cfg, split_txt, netUsed, unzipped, exc, caller, filename,
                   result, missing, download_has_error, mi, si, ai, split,
                   split_lists, download_assets, out, run, prev>>

check_download_file == CheckRemote \/ SkipExisting \/ download_file

\* ------------------------------------------------ urlretrieve_multi_trials
\* the bound of line 90 off by one: the last trial is retried as well
MoreTrialsOffByOne(i, n) == i < n

\* line 90: a truncated transfer is tried again while i < max_trials - 1
MoreTrials(i, n) == i < n - 1

\* the else branch of line 115 retrying instead of raising
RetriedUnlessKnown(outcome) == outcome \notin {"ok", "401", "404", "406"}

\* an HTTP error status is raised at once; only a truncated transfer is retried
Retried(outcome) == outcome = "short"

\* The function returns into its caller, whose frame (i, the record of the
\* calls made) is gone; a direct call keeps the record for inspection.
Leave(record) ==
    IF caller = "direct"
    THEN attempts' = record /\ trial' = trial
    ELSE attempts' = <<>> /\ trial' = 0

\* what urlretrieve(url, filename) leaves at filename: the whole file, the
\* part that arrived before the transfer was cut short, or, the request
\* refused before the file is opened, what was there before
Written(outcome, before) ==
    IF outcome = "ok" THEN "file"
    ELSE IF outcome = "short" THEN "partial"
    ELSE before

\* a handler of line 86 that lets a truncated transfer pass for a whole one
SucceedsOrShort(outcome) == outcome \in {"ok", "short"}

\* lines 82-84: return True is reached when urlretrieve raised nothing
Succeeds(outcome) == outcome = "ok"

\* lines 82-84: urlretrieve wrote the whole file
FetchOk ==
    /\ pc = "try"
    /\ trial < max_trials
    /\ ~is_dir(fs[filename])
    /\ \E o \in Outcomes :
          /\ Succeeds(o)
          /\ fs' = [fs EXCEPT ![filename] = Written(o, fs[filename])]
          /\ Leave(Append(attempts, o))
    /\ fsChanged' = TRUE
    /\ netUsed' = TRUE
    /\ out' = out
    /\ Return(TRUE)
    /\ UNCHANGED <<cfg, split_txt, unzipped, caller, filename, max_trials,
                   si, split, split_lists, download_assets, run, prev>>

\* lines 86-93: ContentTooShortError with trials left: urlretrieve left a
\* truncated file, which is removed, and the loop goes on
FetchRetry ==
    /\ pc = "try"
    /\ trial < max_trials
    /\ ~is_dir(fs[filename])
    /\ \E o \in Outcomes :
          /\ Retried(o)
          /\ MoreTrials(trial, max_trials)
          /\ attempts' = Append(attempts, o)
    /\ fs' = [fs EXCEPT ![filename] = "absent"]
    /\ fsChanged' = TRUE
    /\ netUsed' = TRUE
    /\ trial' = trial + 1
    /\ out' = out
    /\ UNCHANGED <<cfg, split_txt, unzipped, pc, exc, caller, filename,
                   max_trials, result, missing, download_has_error, mi, si,
                   ai, split, split_lists, download_assets, run, prev>>

\* lines 86-89 and 94-96: ContentTooShortError on the last trial: the
\* truncated file stays and the error is raised
FetchExhausted ==
    /\ pc = "try"
    /\ trial < max_trials
    /\ ~is_dir(fs[filename])
    /\ \E o \in Outcomes :
          /\ Retried(o)
          /\ ~MoreTrials(trial, max_trials)
          /\ attempts' = Append(attempts, o)
          /\ fs' = [fs EXCEPT ![filename] = Written(o, fs[filename])]
    /\ fsChanged' = TRUE
    /\ netUsed' = TRUE
    /\ trial' = trial
    /\ out' = out \cup {"Failed to download"}
    /\ Raise("ContentTooShortError")
    /\ UNCHANGED <<cfg, split_txt, unzipped, caller, filename, max_trials,
                   si, split, split_lists, download_assets, run, prev>>

\* lines 98-118: HTTPError, whatever its code: printed and raised; urlopen
\* failed before the local file was opened
FetchHttpError ==
    /\ pc = "try"
    /\ trial < max_trials
    /\ \E o \in Outcomes :
          /\ o # "ok"
          /\ ~Retried(o)
          /\ attempts' = Append(attempts, o)
    /\ netUsed' = TRUE
    /\ trial' = trial
    /\ out' = out \cup {"ERROR when accessing"}
    /\ Raise("HTTPError")
    /\ UNCHANGED <<cfg, split_txt, fs, fsChanged, unzipped, caller, filename,
                   max_trials, si, split, split_lists, download_assets, run, prev>>

\* line 119: the loop ran out without returning or raising.  With trials to
\* make, the last one returns or raises, so this is reached with
\* max_trials = 0 only, which main, always calling with the default, never does
FetchLoopExit ==
    /\ pc = "try"
    /\ trial >= max_trials
    /\ Leave(attempts)
    /\ Return(FALSE)
    /\ UNCHANGED <<cfg, split_txt, fs, fsChanged, netUsed, unzipped, caller,
                   filename, max_trials, si, split, split_lists,
                   download_assets, out, run, prev>>

\* line 82 with a directory at filename: the server answered, and urlretrieve
\* fails to open the local file for writing; IsADirectoryError is none of the
\* errors lines 86 and 99 catch.  The paths main asks for hold files or
\* nothing, so this is reached by a call on another path only.
FetchOntoDir ==
    /\ pc = "try"
    /\ trial < max_trials
    /\ is_dir(fs[filename])
    /\ attempts' = Append(attempts, "isdir")
    /\ netUsed' = TRUE
    /\ trial' = trial
    /\ out' = out
    /\ Raise("IsADirectoryError")
    /\ UNCHANGED <<cfg, split_txt, fs, fsChanged, unzipped, caller, filename,
                   max_trials, si, split, split_lists, download_assets, run, prev>>

urlretrieve_multi_trials == FetchOk \/ FetchRetry \/ FetchExhausted \/ FetchHttpError

\* --------------------------------------------------------------- main, 2
\* lines 224-262: the split lists are read (a list that is not there raises
\* FileNotFoundError), the scenes are cfg.download_scenes and the assets are
\* selected
LoadSplits ==
    /\ pc = "splits"
    /\ \E sts \in [1..Len(cfg.splits) -> FsKinds] :
          /\ \A k \in 1..Len(cfg.splits) : sts[k] \in Seen(SplitPath(k))
          /\ fs' = [q \in Paths |->
                      IF \E k \in 1..Len(cfg.splits) : q = SplitPath(k)
                      THEN sts[CHOOSE k \in 1..Len(cfg.splits) : q = SplitPath(k)]
                      ELSE IF q = MetaDir /\ \E k \in 1..Len(cfg.splits) : Present(sts[k])
                           THEN "dir"
                      ELSE fs[q]]
          /\ IF \A k \in 1..Len(cfg.splits) : is_file(sts[k])
             THEN /\ split_lists' =
                        [s \in SplitNames |->
                            IF \E k \in 1..Len(cfg.splits) : cfg.splits[k] = s
                            THEN split_txt[s] ELSE {}]
                  /\ download_assets' = SelectAssets(cfg)
                  /\ si' = 1
                  /\ pc' = "scene"
                  /\ exc' = exc
             ELSE /\ exc' = "FileNotFoundError"
                  /\ pc' = "crashed"
                  /\ UNCHANGED <<split_lists, download_assets, si>>
    /\ UNCHANGED <<cfg, split_txt, fsChanged, netUsed, unzipped, caller,
                   filename, max_trials, trial, attempts, result, missing,
                   download_has_error, mi, ai, split, out, run, prev>>

\* lines 265-279: the next scene, its split, and the assertion on it
SceneLoop ==
    /\ pc = "scene"
    /\ IF si > Len(SceneIds)
       THEN /\ pc' = "report"
            /\ UNCHANGED <<split, ai, exc>>
       ELSE /\ split' = FindSplit(SceneIds[si], split_lists)
            /\ ai' = 1
            /\ IF split' = NoSplit
               THEN exc' = "AssertionError" /\ pc' = "crashed"
               ELSE exc' = exc /\ pc' = "asset"
    /\ UNCHANGED <<cfg, split_txt, fs, fsChanged, netUsed, unzipped, caller,
                   filename, max_trials, trial, attempts, result, missing,
                   download_has_error, mi, si, split_lists, download_assets,
                   out, run, prev>>

\* the asset the loop of line 279 is at
Asset == download_assets[ai]

\* lines 279-296 and 312-316: an excluded asset and an archived asset whose
\* target is there are passed over; otherwise check_download_file is called
\* on the archive or on the plain file
AssetLoop ==
    /\ pc = "asset"
    /\ IF ai > Len(download_assets)
       THEN /\ pc' = "scene_end"
            /\ UNCHANGED <<ai, fs, caller, filename>>
       ELSE IF Excluded(Asset, split)
       THEN /\ ai' = ai + 1
            /\ UNCHANGED <<pc, fs, caller, filename>>
       ELSE IF Asset \in cfg.zipped_assets
       THEN \E t \in Seen(TgtPath(SceneIds[si], Asset)) :
               /\ fs' = Found(fs, TgtPath(SceneIds[si], Asset), t)
               /\ IF TargetExists(t)
                  THEN /\ ai' = ai + 1
                       /\ UNCHANGED <<pc, caller, filename>>
                  ELSE /\ caller' = "zip"
                       /\ filename' = ZipPath(SceneIds[si], Asset)
                       /\ pc' = "cdf"
                       /\ ai' = ai
       ELSE /\ caller' = "plain"
            /\ filename' = TgtPath(SceneIds[si], Asset)
            /\ pc' = "cdf"
            /\ UNCHANGED <<ai, fs>>
    /\ UNCHANGED <<cfg, split_txt, fsChanged, netUsed, unzipped, exc,
                   max_trials, trial, attempts, result, missing,
                   download_has_error, mi, si, split, split_lists,
                   download_assets, out, run, prev>>

\* lines 302-307: the archive is extracted into its directory, where it
\* leaves the directory the asset is named after (the archive of an asset
\* holds that asset); an archive cut short is no zip file (zipfile.BadZipFile)
Unzip ==
    /\ pc = "unzip"
    /\ IF fs[filename] = "file"
       THEN /\ fs' = [fs EXCEPT ![TgtPath(filename[2], filename[3])] = "dir"]
            /\ fsChanged' = TRUE
            /\ unzipped' = TRUE
            /\ pc' = "unlink"
            /\ exc' = exc
       ELSE /\ exc' = "BadZipFile"
            /\ pc' = "crashed"
            /\ UNCHANGED <<fs, fsChanged, unzipped>>
    /\ UNCHANGED <<cfg, split_txt, netUsed, caller, filename, max_trials,
                   trial, attempts, result, missing, download_has_error, mi,
                   si, ai, split, split_lists, download_assets, out, run, prev>>

\* lines 308-311: tgt_download_path.unlink(), then the next asset
Unlink ==
    /\ pc = "unlink"
    /\ fs' = [fs EXCEPT ![filename] = "absent"]
    /\ fsChanged' = TRUE
    /\ ai' = ai + 1
    /\ pc' = "asset"
    /\ UNCHANGED <<cfg, split_txt, netUsed, unzipped, exc, caller, filename,
                   max_trials, trial, attempts, result, missing,
                   download_has_error, mi, si, split, split_lists,
                   download_assets, out, run, prev>>

\* the break of line 323 forgotten: the loop goes on to the next scene
SceneNeverBreaks(has_error) == FALSE

\* line 321: a scene with an error ends the loop over the scenes
SceneBreak(has_error) == has_error

\* lines 321-323
SceneEnd ==
    /\ pc = "scene_end"
    /\ IF SceneBreak(download_has_error)
       THEN /\ out' = out \cup {"Error downloading scene"}
            /\ pc' = "report"
            /\ si' = si
       ELSE /\ out' = out
            /\ pc' = "scene"
            /\ si' = si + 1
    /\ UNCHANGED <<cfg, split_txt, fs, fsChanged, netUsed, unzipped, exc,
                   caller, filename, max_trials, trial, attempts, result,
                   missing, download_has_error, mi, ai, split, split_lists,
                   download_assets, run, prev>>

\* lines 325-328
Report ==
    /\ pc = "report"
    /\ out' = out \cup {IF missing # <<>> THEN "files missing:"
                                          ELSE "Download successful!"}
    /\ pc' = "done"
    /\ UNCHANGED <<cfg, split_txt, fs, fsChanged, netUsed, unzipped, exc,
                   caller, filename, max_trials, trial, attempts, result,
                   missing, download_has_error, mi, si, ai, split,
                   split_lists, download_assets, run, prev>>

\* lines 331-336: the script is started again, with the same configuration,
\* on the filesystem the first run left
Runs == {1, 2}

Rerun ==
    /\ Finished
    /\ run + 1 \in Runs
    /\ run' = run + 1
    /\ pc' = "mkroot"
    /\ fsChanged' = FALSE
    /\ netUsed' = FALSE
    /\ unzipped' = FALSE
    /\ exc' = "none"
    /\ caller' = "none"
    /\ filename' = Root
    /\ max_trials' = DefaultMaxTrials
    /\ trial' = 0
    /\ attempts' = <<>>
    /\ result' = "none"
    /\ missing' = <<>>
    /\ download_has_error' = FALSE
    /\ mi' = 1
    /\ si' = 1
    /\ ai' = 1
    /\ split' = NoSplit
    /\ split_lists' = [s \in SplitNames |-> {}]
    /\ download_assets' = <<>>
    /\ out' = {}
    /\ prev' = (IF pc = "done" /\ missing = <<>> THEN "clean" ELSE "failed")
    /\ UNCHANGED <<cfg, split_txt, fs>>

Next ==
    \/ MakeDataRoot
    \/ MetaLoop
    \/ check_download_file
    \/ urlretrieve_multi_trials
    \/ LoadSplits
    \/ SceneLoop
    \/ AssetLoop
    \/ Unzip
    \/ Unlink
    \/ SceneEnd
    \/ Report
    \/ Rerun

Spec == Init /\ [][Next]_vars

\* ------------------------------------ urlretrieve_multi_trials called alone
\* The fetcher called on one path with any max_trials, the path holding
\* whatever an earlier call left there.
FetchInit ==
    /\ cfg \in {c \in Configs : /\ ~c.dry_run /\ ~c.metadata_only
                                /\ c.splits = CfgSplits
                                /\ c.exclude_assets["test"] = {}}
    /\ split_txt = [s \in SplitNames |-> {}]
    /\ \E st \in {"absent", "file", "partial"} :
          fs = [p \in Paths |-> IF p = Root \/ p = SceneDir(1) THEN "dir"
                                ELSE IF p = TgtPath(1, "a2") THEN st
                                ELSE "unseen"]
    /\ run = 1
    /\ fsChanged = FALSE
    /\ netUsed = FALSE
    /\ unzipped = FALSE
    /\ exc = "none"
    /\ caller = "direct"
    /\ filename = TgtPath(1, "a2")
    /\ max_trials \in 0..MaxTrialsArg
    /\ trial = 0
    /\ attempts = <<>>
    /\ result = "none"
    /\ missing = <<>>
    /\ download_has_error = FALSE
    /\ mi = 1
    /\ si = 1
    /\ ai = 1
    /\ split = NoSplit
    /\ split_lists = [s \in SplitNames |-> {}]
    /\ download_assets = <<>>
    /\ out = {}
    /\ prev = "none"
    /\ pc = "try"

FetchNext == urlretrieve_multi_trials \/ FetchLoopExit

SpecFetch == FetchInit /\ [][FetchNext]_vars

\* ------------------------------------------ check_download_file called alone
\* check_download_file called on one path (a meta file, an archive, a plain
\* asset), under dry_run or not, the path holding nothing, a file whole or
\* truncated, or a directory.
CdfPaths == {MetaPath(1), ZipPath(1, "a1"), TgtPath(1, "a2")}

CdfInit ==
    /\ cfg \in {c \in Configs : /\ ~c.metadata_only
                                /\ c.splits = CfgSplits
                                /\ c.exclude_assets["test"] = {}}
    /\ split_txt = [s \in SplitNames |-> {}]
    /\ filename \in CdfPaths
    /\ \E st \in {"absent", "file", "partial", "dir"} :
          fs = [p \in Paths |-> IF p = Root THEN "dir"
                                ELSE IF p = filename THEN st
                                ELSE IF p = Parent(filename) /\ Present(st) THEN "dir"
                                ELSE "unseen"]
    /\ run = 1
    /\ fsChanged = FALSE
    /\ netUsed = FALSE
    /\ unzipped = FALSE
    /\ exc = "none"
    /\ caller = "direct"
    /\ max_trials = DefaultMaxTrials
    /\ trial = 0
    /\ attempts = <<>>
    /\ result = "none"
    /\ missing = <<>>
    /\ download_has_error = FALSE
    /\ mi = 1
    /\ si = 1
    /\ ai = 1
    /\ split = NoSplit
    /\ split_lists = [s \in SplitNames |-> {}]
    /\ download_assets = <<>>
    /\ out = {}
    /\ prev = "none"
    /\ pc = "cdf"

CdfNext == check_download_file \/ urlretrieve_multi_trials \/ FetchOntoDir

SpecCdf == CdfInit /\ [][CdfNext]_vars

\* ------------------------------------------- the selection of the assets
OptionNames == {"o1", "o2"}
AssetNames == {"x", "y", "z"}

SeqsUpTo(S, n) == UNION {[1..k -> S] : k \in 0..n}

\* the configurations that differ in what lines 249-259 read
SelectConfigs ==
    [dry_run : {FALSE},
     metadata_only : {FALSE},
     splits : {CfgSplits},
     zipped_assets : {{}},
     exclude_assets : {[s \in SplitNames |-> {}]},
     download_assets : {<<>>, <<"z", "x">>},
     download_options : SeqsUpTo(OptionNames, MaxOptions),
     option_assets : [OptionNames -> SeqsUpTo(AssetNames, MaxOptionAssets)],
     default_assets : {<<"y">>}]

SelectInit ==
    /\ cfg \in SelectConfigs
    /\ split_txt = [s \in SplitNames |-> {}]
    /\ fs = [p \in Paths |-> IF p = Root THEN "dir" ELSE "unseen"]
    /\ run = 1
    /\ Fresh
    /\ pc = "select"

\* lines 249-261 alone
Select ==
    /\ pc = "select"
    /\ download_assets' = SelectAssets(cfg)
    /\ pc' = "selected"
    /\ UNCHANGED <<cfg, split_txt, fs, fsChanged, netUsed, unzipped, exc,
                   caller, filename, max_trials, trial, attempts, result,
                   missing, download_has_error, mi, si, ai, split,
                   split_lists, out, run, prev>>

SelectNext == Select

SpecSelect == SelectInit /\ [][SelectNext]_vars

\* ================================================================== claims
Range(q) == {q[i] : i \in 1..Len(q)}

\* the program is inside check_download_file, the fetcher or the installation
\* of an archive, for an asset of a scene
WorkPcs == {"cdf", "try", "unzip", "unlink"}
AtSceneWork == pc \in WorkPcs /\ caller \in {"zip", "plain"}

\* a step that probes, fetches, extracts or deletes an archive
WorkStep == check_download_file \/ urlretrieve_multi_trials \/ Unzip \/ Unlink

\* the fetch or the probe of an asset of a scene has failed in this run
SceneAssetFailed ==
    \/ download_has_error
    \/ /\ pc = "crashed"
       /\ caller \in {"zip", "plain"}
       /\ exc \in {"HTTPError", "ContentTooShortError"}

\* the failure was printed: by the fetcher before it raised, or by line 322
FailureReported ==
    out \cap {"ERROR when accessing", "Failed to download",
              "Error downloading scene"} # {}

\* steps left to the end of the run once the asset loop was broken
TailRank(p) ==
    IF p = "scene_end" THEN 2 ELSE IF p = "report" THEN 1 ELSE 0

\* C1 (fail-fast): once the fetch or probe of an asset of scene i has failed,
\* no step of the run probes, fetches, extracts or deletes anything any more
\* (neither for the rest of scene i nor for a later scene), the program is on
\* its way out (the end of the scene, the report, the end) and gets one step
\* closer with every step, and it ends with the failure printed.
FailFast ==
    /\ [](SceneAssetFailed =>
            /\ pc \in {"scene_end", "report", "done", "crashed"}
            /\ (Finished \/ ENABLED (SceneEnd \/ Report))
            /\ (Finished => FailureReported))
    /\ [][SceneAssetFailed =>
            /\ ~WorkStep
            /\ (~Finished => TailRank(pc') < TailRank(pc))]_vars

\* the probe of the first asset of a scene failed, an asset and a scene were
\* still to come, and the run has ended
FailFastWitness ==
    /\ pc = "done"
    /\ download_has_error
    /\ si < Len(SceneIds)
    /\ ai < Len(download_assets)
    /\ missing # <<>>

\* C2 (meta-file failures are soft): a meta file whose fetch has failed with
\* an HTTP error or with its trials exhausted is in the missing list, and the
\* run has not ended with that error.
MetaFailuresAreSoft ==
    (/\ caller = "meta"
     /\ attempts # <<>>
     /\ \/ attempts[Len(attempts)] \in HttpErrors
        \/ (attempts[Len(attempts)] = "short" /\ Len(attempts) = max_trials))
    => (pc # "crashed" /\ filename \in Range(missing))

AllShort(record) == \A i \in 1..Len(record) : record[i] = "short"

\* C3 (retry bound): with max_trials >= 1, a fetch whose every transfer was
\* cut short has made exactly max_trials transfers when it ends, and it ends
\* by raising ContentTooShortError, returning nothing; every transfer after
\* the first starts with no file at the local path.
RetryBound ==
    /\ (pc = "try" /\ trial >= 1) => fs[filename] = "absent"
    /\ Len(attempts) <= max_trials
    /\ (max_trials >= 1 /\ AllShort(attempts) /\ pc # "try")
         => /\ Len(attempts) = max_trials
            /\ pc = "crashed"
            /\ exc = "ContentTooShortError"
            /\ result = "none"

\* every one of several trials was cut short and the fetch has raised
RetryBoundWitness ==
    /\ pc = "crashed"
    /\ exc = "ContentTooShortError"
    /\ max_trials >= 2
    /\ Len(attempts) = max_trials
    /\ AllShort(attempts)

\* C4 (no retry on an HTTP error): a transfer that ended with an HTTP error
\* status (401, 404, 406 or another) is the last transfer of its fetch, and
\* the fetch has raised HTTPError and returned nothing, however many trials
\* were left.
NoRetryOnHttpError ==
    \A i \in 1..Len(attempts) :
        attempts[i] \in HttpErrors
        => /\ i = Len(attempts)
           /\ pc = "crashed"
           /\ exc = "HTTPError"
           /\ result = "none"

\* the first transfer got another HTTP error with trials left, and the fetch
\* has raised
NoRetryWitness ==
    /\ pc = "crashed"
    /\ attempts = <<"500">>
    /\ max_trials >= 2

\* C5 (dry-run purity): a run under dry_run changes nothing on the local
\* filesystem.
DryRunChangesNothing == cfg.dry_run => ~fsChanged

\* C6 (idempotency): the run after a run that fetched everything (not a dry
\* run, ended at its end with nothing missing), with the same configuration
\* on the filesystem that run left, sends nothing to the server, extracts
\* nothing, changes nothing on disk and never enters the fetcher or the
\* installation of an archive.
Idempotency ==
    (run = 2 /\ prev = "clean" /\ ~cfg.dry_run)
    => /\ ~netUsed
       /\ ~unzipped
       /\ ~fsChanged
       /\ pc \notin {"try", "unzip", "unlink", "crashed"}
       /\ missing = <<>>

\* the second run has ended; the first had fetched, extracted and deleted the
\* archive of scene 1 and fetched its plain asset
IdempotencyWitness ==
    /\ run = 2
    /\ prev = "clean"
    /\ ~cfg.dry_run
    /\ ~cfg.metadata_only
    /\ pc = "done"
    /\ fs[ZipPath(1, "a1")] = "absent"
    /\ fs[TgtPath(1, "a1")] = "dir"
    /\ fs[TgtPath(1, "a2")] = "file"

\* the archived asset the loop is at, neither past the end nor excluded
AtArchivedAsset ==
    /\ pc = "asset"
    /\ ai <= Len(download_assets)
    /\ ~Excluded(Asset, split)
    /\ Asset \in cfg.zipped_assets

\* C7 (skip on existence): under dry_run or not, an archived asset whose
\* target is found to exist (a file or a directory) is passed over in one
\* step that goes to the next asset, sends nothing to the server, extracts
\* and changes nothing, and leaves the archive path as it is, whatever is
\* there; and the program is inside check_download_file, the fetcher or the
\* extraction for an archive only while the target of that archive is absent.
SkipOnExistence ==
    /\ []((pc \in {"cdf", "try", "unzip"} /\ caller = "zip")
            => fs[TgtPath(filename[2], filename[3])] = "absent")
    /\ [][(AtArchivedAsset /\ Present(fs'[TgtPath(SceneIds[si], Asset)]))
            => /\ pc' = "asset"
               /\ ai' = ai + 1
               /\ fs'[ZipPath(SceneIds[si], Asset)] = fs[ZipPath(SceneIds[si], Asset)]
               /\ UNCHANGED <<netUsed, unzipped, fsChanged, missing,
                              download_has_error, caller, filename>>]_vars

\* a dry run has passed over the archived asset of a scene whose target was
\* there; what lies at the archive path was never looked at
SkipOnExistenceWitness ==
    /\ cfg.dry_run
    /\ run = 1
    /\ pc = "asset"
    /\ ai = 2
    /\ download_assets[1] \in cfg.zipped_assets
    /\ ~Excluded(download_assets[1], split)
    /\ fs[TgtPath(SceneIds[si], download_assets[1])] = "file"
    /\ fs[ZipPath(SceneIds[si], download_assets[1])] = "unseen"

\* the asset is excluded for the split whose list holds the scene
ExcludedForScene(scene, asset) ==
    \E sp \in SplitNames :
        scene \in split_lists[sp] /\ asset \in cfg.exclude_assets[sp]

\* C8 (exclusion): the program is never inside check_download_file, the
\* fetcher or the installation of an archive for an asset excluded for the
\* split whose list holds the scene, and the asset loop passes such an asset
\* in one step that goes to the next asset and changes nothing else.
Exclusion ==
    /\ [](AtSceneWork => ~ExcludedForScene(filename[2], filename[3]))
    /\ [][(/\ pc = "asset"
           /\ ai <= Len(download_assets)
           /\ ExcludedForScene(SceneIds[si], Asset))
            => /\ pc' = "asset"
               /\ ai' = ai + 1
               /\ UNCHANGED <<fs, netUsed, unzipped, fsChanged, missing,
                              download_has_error, si>>]_vars

\* the first asset of a scene of the test split, excluded there, was passed
\* with nothing looked at
ExclusionWitness ==
    /\ pc = "asset"
    /\ ai = 2
    /\ SceneIds[si] \in split_lists["test"]
    /\ download_assets[1] \in cfg.exclude_assets["test"]
    /\ fs[TgtPath(SceneIds[si], download_assets[1])] = "unseen"
    /\ fs[ZipPath(SceneIds[si], download_assets[1])] = "unseen"

\* C9 (split membership is enforced): the program is inside
\* check_download_file, the fetcher or the installation of an archive for an
\* asset of a scene only if some split list holds the scene.
SplitMembershipEnforced ==
    AtSceneWork => \E sp \in SplitNames : filename[2] \in split_lists[sp]

\* the option lists one after the other, in the order the options are selected
RECURSIVE Flatten(_, _)
Flatten(options, table) ==
    IF options = <<>> THEN <<>>
    ELSE table[Head(options)] \o Flatten(Tail(options), table)

\* where x first occurs in q
FirstIndex(q, x) == CHOOSE i \in 1..Len(q) : q[i] = x /\ \A j \in 1..(i - 1) : q[j] # x

\* C10 (dedup ordering): with no explicit asset list and options selected,
\* the selected assets are those of the concatenated option lists, each once,
\* in the order of their first occurrences there.
DedupOrdering ==
    (pc = "selected" /\ cfg.download_assets = <<>> /\ cfg.download_options # <<>>)
    => LET all == Flatten(cfg.download_options, cfg.option_assets)
           got == download_assets
       IN  /\ Range(got) = Range(all)
           /\ \A i, j \in 1..Len(got) : i # j => got[i] # got[j]
           /\ \A i, j \in 1..Len(got) :
                 i < j => FirstIndex(all, got[i]) < FirstIndex(all, got[j])

\* options [x, y] and [y, z] gave [x, y, z]
DedupOrderingWitness ==
    /\ pc = "selected"
    /\ cfg.download_assets = <<>>
    /\ cfg.download_options = <<"o1", "o2">>
    /\ cfg.option_assets["o1"] = <<"x", "y">>
    /\ cfg.option_assets["o2"] = <<"y", "z">>
    /\ download_assets = <<"x", "y", "z">>

\* C11 (metadata-only): a run with metadata_only set stays in the meta-file
\* stage (it is inside check_download_file or the fetcher for meta files only,
\* loads no split list, selects no asset, extracts nothing), and when it has
\* ended every meta file has been through check_download_file.
MetadataOnly ==
    cfg.metadata_only
    => /\ pc \in {"mkroot", "meta", "cdf", "try", "done", "crashed"}
       /\ (pc \in {"cdf", "try"} => caller = "meta")
       /\ split_lists = [s \in SplitNames |-> {}]
       /\ download_assets = <<>>
       /\ ~unzipped
       /\ (Finished => mi > Len(CfgSplits))

\* C12 (a failed scene asset is recorded): once the fetch (outside dry run) or
\* the probe (under dry_run) of a plain asset or of an archive has failed, the
\* path that was asked for is in the missing list, download_has_error is set
\* and the asset loop of the scene is left.
SceneFailureRecorded ==
    SceneAssetFailed
    => /\ filename \in Range(missing)
       /\ download_has_error
       /\ pc \in {"scene_end", "report", "done"}

\* C13 (success leaves a complete file): when the fetcher has returned True,
\* the local path holds the whole file, written by the last transfer, which
\* was not cut short; every transfer before it was cut short and what it left
\* is gone.
CompleteOnSuccess ==
    result = "True"
    => /\ fs[filename] = "file"
       /\ attempts # <<>>
       /\ attempts[Len(attempts)] = "ok"
       /\ \A i \in 1..(Len(attempts) - 1) : attempts[i] = "short"

\* the fetcher returned True after transfers that were cut short
CompleteOnSuccessWitness ==
    /\ result = "True"
    /\ Len(attempts) >= 3
    /\ attempts[1] = "short"
    /\ fs[filename] = "file"

\* the target of the archive the program is working on
ArchiveTarget == TgtPath(filename[2], filename[3])

\* C14 (archive installation): a dry run never extracts and never deletes an
\* archive.  Outside dry run the extraction of an archive is entered only by
\* the step in which check_download_file of that archive returns True (the
\* archive found there, or fetched), with the target absent and the archive a
\* file; the deletion is entered only by the extraction, which has produced
\* the target; and the deletion leaves no archive file, the target in place,
\* and goes on to the next asset.
ArchiveInstallation ==
    /\ [](cfg.dry_run => (~unzipped /\ pc \notin {"unzip", "unlink"}))
    /\ [](pc \in {"unzip", "unlink"} => (caller = "zip" /\ filename[1] = "zip"))
    /\ [](pc = "unzip" => (is_file(fs[filename]) /\ fs[ArchiveTarget] = "absent"))
    /\ [](pc = "unlink" => (fs[filename] = "file" /\ fs[ArchiveTarget] = "dir"))
    /\ [][(pc' = "unzip" /\ pc # "unzip")
            => (caller = "zip" /\ (SkipExisting \/ FetchOk))]_vars
    /\ [][(pc' = "unlink" /\ pc # "unlink") => (Unzip /\ unzipped')]_vars
    /\ [][pc = "unlink"
            => /\ pc' = "asset"
               /\ ai' = ai + 1
               /\ fs'[filename] = "absent"
               /\ fs'[ArchiveTarget] = "dir"]_vars

\* the archive of the first asset of a scene was fetched, extracted and
\* deleted, and the loop is at the next asset
ArchiveInstallationWitness ==
    /\ ~cfg.dry_run
    /\ run = 1
    /\ pc = "asset"
    /\ ai = 2
    /\ netUsed
    /\ unzipped
    /\ fs[ZipPath(SceneIds[si], download_assets[1])] = "absent"
    /\ fs[TgtPath(SceneIds[si], download_assets[1])] = "dir"

\* under dry_run the fetcher is never entered and nothing changes on disk, and
\* check_download_file returns a truth value
CdfAlways ==
    /\ cfg.dry_run => (pc \in {"cdf", "returned"} /\ attempts = <<>> /\ ~fsChanged)
    /\ pc = "returned" => result \in {"True", "False"}

\* A step of check_download_file, Skips being the test on the local path that
\* makes it return at once: under dry_run one step that returns the answer of
\* the probe; outside dry run a path that passes the test gives True with no
\* request sent and nothing changed, and any other path enters the fetcher,
\* once, at its first trial, and what the fetcher returns is what
\* check_download_file returns.
CdfStep(Skips(_)) ==
    /\ (pc = "cdf" /\ cfg.dry_run)
         => (pc' = "returned" /\ result' \in {"True", "False"} /\ netUsed')
    /\ (pc = "cdf" /\ ~cfg.dry_run /\ Skips(fs[filename]))
         => (pc' = "returned" /\ result' = "True" /\ ~netUsed' /\ ~fsChanged')
    /\ (pc = "cdf" /\ ~cfg.dry_run /\ ~Skips(fs[filename]))
         => (pc' = "try" /\ trial' = 0 /\ attempts' = <<>> /\ ~netUsed')
    /\ pc' = "try" => pc \in {"cdf", "try"}
    /\ (pc = "try" /\ pc' = "returned") => (FetchOk /\ result' = "True")

\* C15 as stated (checkAndFetch decision): under dry_run check_download_file
\* returns the answer of the probe and never enters the fetcher; outside dry
\* run a local path that exists makes it return True with no request sent,
\* and any other path enters the fetcher once, whose result it returns.
CheckAndFetchDecision == []CdfAlways /\ [][CdfStep(exists)]_vars

\* C15 as amended: the same, with "exists" read as "is a file": outside dry
\* run it is a local path that is a file (whole or truncated) that makes
\* check_download_file return True with no request sent; a path that holds
\* nothing or is no file, a directory, goes to the fetcher.
CheckAndFetchDecisionFile == []CdfAlways /\ [][CdfStep(is_file)]_vars

\* the local path was a directory: the fetcher was entered, sent its request
\* and failed to open the path
CheckAndFetchDecisionWitness ==
    /\ ~cfg.dry_run
    /\ pc = "crashed"
    /\ exc = "IsADirectoryError"
    /\ netUsed
    /\ fs[filename] = "dir"

\* C16 (final report completeness): a run that has ended without an unhandled
\* error, a metadata_only run as well, has printed its missing list when there
\* is something in it, and has printed success only with the list empty.
ReportComplete ==
    pc = "done"
    => /\ missing # <<>> => "files missing:" \in out
       /\ "Download successful!" \in out => missing = <<>>

\* C17 (nothing left after exhaustion): when the fetcher has raised because
\* its last trial was cut short as well, nothing lies at the local path, so
\* that a later check_download_file of the path finds no file to skip.
NoPartialAfterExhaustion ==
    (pc = "crashed" /\ exc = "ContentTooShortError") => ~Present(fs[filename])

\* C18 (nothing is ever missing outside dry run): in a run that is not a dry
\* run the missing list is empty and download_has_error is unset in every
\* state, the list of missing files is never printed, and a run that has come
\* to its end through the final report has printed success.
NonDryRunMissingEmpty ==
    ~cfg.dry_run
    => /\ missing = <<>>
       /\ ~download_has_error
       /\ "files missing:" \notin out
       /\ (pc = "done" /\ ~cfg.metadata_only) => "Download successful!" \in out

\* a run that fetched something has ended after the final report
NonDryRunMissingEmptyWitness ==
    /\ ~cfg.dry_run
    /\ ~cfg.metadata_only
    /\ run = 1
    /\ pc = "done"
    /\ netUsed
    /\ unzipped
    /\ "Download successful!" \in out

\* the entries of the missing list recorded in the scene/asset stage
SceneEntries == {i \in 1..Len(missing) : missing[i][1] \in {"tgt", "zip"}}

\* C19 (at most one scene path is missing): in every state the missing list
\* holds at most one path of the scene/asset stage; it is the last entry, all
\* entries before it are meta files, and it is there exactly when
\* download_has_error is set.
AtMostOneSceneMissing ==
    /\ Cardinality(SceneEntries) <= 1
    /\ \A i \in SceneEntries : i = Len(missing)
    /\ \A i \in (1..Len(missing)) \ SceneEntries : missing[i][1] = "meta"
    /\ (SceneEntries # {}) <=> download_has_error

\* both meta files and then the archive of the first scene were found missing
\* on the server, with a scene still to come, and the run has ended
AtMostOneSceneMissingWitness ==
    /\ pc = "done"
    /\ Len(missing) = 3
    /\ missing[3] = ZipPath(1, "a1")
    /\ si < Len(SceneIds)

\* C20 (an archive left on disk is installed): outside dry run, for an archived
\* asset whose target is absent, an archive file found at the archive path is
\* not fetched again: check_download_file goes on to the extraction with no
\* request sent, the extraction produces the target and goes on to the
\* deletion, and the deletion removes the archive, all with no request sent.
\* (An archive the fetcher has just written is whole, so the extraction can
\* fail only on an archive that was found on disk.)
StaleArchiveInstalled ==
    /\ [][(pc = "cdf" /\ caller = "zip" /\ ~cfg.dry_run /\ is_file(fs'[filename]))
            => (pc' = "unzip" /\ UNCHANGED netUsed)]_vars
    /\ [][pc = "unzip"
            => (pc' = "unlink" /\ fs'[ArchiveTarget] = "dir" /\ UNCHANGED netUsed)]_vars
    /\ [][pc = "unlink"
            => (fs'[filename] = "absent" /\ UNCHANGED netUsed)]_vars

====
